---- MODULE Spec2Model ----
(***************************************************************************)
(* Traffic Violations Insight Dashboard (src/app.py).                      *)
(*                                                                         *)
(* The dashboard is a script that the hosting framework runs from top to   *)
(* bottom once when the session starts and once more after every widget    *)
(* interaction.  A state of the model is the state between two runs: the   *)
(* parquet file, the load_data cache, the widget values kept by the        *)
(* session, and what the last run produced (df, filtered_df, the views,    *)
(* the exception that stopped it).  Every action is one interaction        *)
(* followed by the whole script run it triggers.                           *)
(***************************************************************************)
EXTENDS Integers, Sequences, FiniteSets, TLC

VARIABLES
    parquet,            \* traffic_stops_clean.parquet: the rows on disk
    cache,              \* st.cache_data entry of load_data: [filled, table]
    loads,              \* how many times the body of load_data has run
    df,                 \* the table of the last run, after the derivations
    date_range,         \* value of the "Date Range" input: 1 or 2 dates
    selected_vehicle,   \* value of the "Vehicle Type" multiselect
    selected_gender,    \* value of the "Gender" multiselect
    selected_race,      \* value of the "Race" multiselect
    selected_violation, \* value of the "Violation Type" multiselect
    show_heatmap,       \* value of the "Show Heatmap" checkbox
    filtered_df,        \* filtered_df of the last run
    top_makes,          \* tab 1: top 10 vehicle makes
    time_df,            \* tab 2: violations by time bucket
    top_violations,     \* tab 2: top 10 violation descriptions
    heatmap,            \* tab 3: the rows drawn on the density map
    preview,            \* tab 4: the rows shown by st.dataframe
    csv,                \* tab 4: the lines handed to the download button
    err                 \* the exception that stopped the last run, or "none"

vars == <<parquet, cache, loads, df, date_range, selected_vehicle,
          selected_gender, selected_race, selected_violation, show_heatmap,
          filtered_df, top_makes, time_df, top_violations, heatmap, preview,
          csv, err>>

(***************************************************************************)
(* Bounds of the model.                                                    *)
(***************************************************************************)
\* longest table built freely from RowPool
MaxRows == 2
\* the date input offers the days 1..MaxDay
MaxDay == 3
\* the generated tables have up to MaxMakes - 1 distinct makes
MaxMakes == 12
\* rows of a generated medium table beyond its distinct makes
MedExtra == 4
\* rows of a generated large table beyond the preview length
BigExtra == 1

(***************************************************************************)
(* Values.                                                                 *)
(***************************************************************************)
\* pandas' missing timestamp; the days are 1, 2, ...
NaT == 0
\* pandas' missing value of a text column
NaN == "<NA>"
\* a missing Stop Hour
NoHour == -1

\* st.dataframe(filtered_df.head(200))
PreviewRows == 200
\* .value_counts().head(10)
TopN == 10

\* the text of day d in the file and in the CSV
DateStrings ==
    <<"2024-01-01", "2024-01-02", "2024-01-03", "2024-01-04", "2024-01-05",
      "2024-01-06">>

Days == 1..MaxDay

MakeNames ==
    <<"ACURA", "BMW", "CHEVY", "DODGE", "FORD", "GMC", "HONDA", "INFINITI",
      "JEEP", "KIA", "LEXUS", "MAZDA", "NISSAN", "TOYOTA">>

Min(a, b) == IF a <= b THEN a ELSE b

(***************************************************************************)
(* The file.  A row on disk has the columns the script reads.              *)
(***************************************************************************)
RowPool ==
    { [date |-> "2024-01-01", hour |-> 0, vehicle |-> "Car", gender |-> "F",
       race |-> "WHITE", violation |-> "Citation", make |-> "FORD",
       desc |-> "SPEEDING"],
      [date |-> "2024-01-02", hour |-> 6, vehicle |-> "Truck", gender |-> "M",
       race |-> "WHITE", violation |-> "Citation", make |-> "TOYOTA",
       desc |-> "SPEEDING"],
      [date |-> "2024-01-03", hour |-> 12, vehicle |-> "Car", gender |-> "M",
       race |-> NaN, violation |-> "Citation", make |-> "FORD",
       desc |-> "NO SEATBELT"],
      [date |-> "not a date", hour |-> NoHour, vehicle |-> "Car",
       gender |-> NaN, race |-> "WHITE", violation |-> NaN,
       make |-> NaN, desc |-> NaN] }

RECURSIVE SeqsUpTo(_, _)
SeqsUpTo(S, n) ==
    IF n = 0 THEN {<<>>}
    ELSE LET shorter == SeqsUpTo(S, n - 1)
         IN  shorter \cup {Append(t, r) : t \in shorter, r \in S}

\* row i of a generated table with makes drawn from m values: the first m rows
\* run through all of them, the later rows repeat the lower half
GenMake(i, m) ==
    LET k == IF i <= m THEN i % m ELSE i % ((m \div 2) + 1)
    IN  IF k = 0 THEN NaN ELSE MakeNames[k]

\* g is the number of genders in the table
GenRow(i, m, g) ==
    [date |-> DateStrings[(i % 3) + 1], hour |-> i % 24, vehicle |-> "Car",
     gender |-> IF i % g = 0 THEN "F" ELSE "M", race |-> "WHITE",
     violation |-> "Citation", make |-> GenMake(i, m),
     desc |-> IF i % m = 0 THEN NaN ELSE MakeNames[i % m]]

GenTable(n, m, g) == [i \in 1..n |-> GenRow(i, m, g)]

SmallTables == SeqsUpTo(RowPool, MaxRows)
MediumTables ==
    {GenTable(m + MedExtra, m, 2) : m \in (MaxMakes - 3)..MaxMakes}
BigTables == {GenTable(PreviewRows + BigExtra, 3, 1)}

(***************************************************************************)
(* load_data and the derivations, lines 19-36.                             *)
(***************************************************************************)
\* pd.read_parquet: the rows of the file under a RangeIndex
read_parquet(file) ==
    [i \in 1..Len(file) |->
        [idx |-> i - 1, date |-> file[i].date, hour |-> file[i].hour,
         vehicle |-> file[i].vehicle, gender |-> file[i].gender,
         race |-> file[i].race, violation |-> file[i].violation,
         make |-> file[i].make, desc |-> file[i].desc]]

\* the same, when st.cache_data is left out: every run reads the file again
load_data_uncached(c, file, n) ==
    [cache |-> [filled |-> TRUE, table |-> read_parquet(file)],
     loads |-> n + 1]

\* @st.cache_data def load_data(): the body runs on a miss only; the caller
\* gets a copy of the cached table
load_data(c, file, n) ==
    IF c.filled
    THEN [cache |-> c, loads |-> n]
    ELSE [cache |-> [filled |-> TRUE, table |-> read_parquet(file)],
          loads |-> n + 1]

IsDateString(s) == \E d \in 1..Len(DateStrings) : DateStrings[d] = s

\* errors="coerce" left out of the picture: an unparseable text becomes day 1
to_datetime_epoch(s) ==
    IF IsDateString(s)
    THEN CHOOSE d \in 1..Len(DateStrings) : DateStrings[d] = s
    ELSE 1

\* pd.to_datetime(..., errors="coerce") on one cell
to_datetime(s) ==
    IF IsDateString(s)
    THEN CHOOSE d \in 1..Len(DateStrings) : DateStrings[d] = s
    ELSE NaT

Bins == <<0, 6, 12, 18, 24>>
Labels == <<"Night", "Morning", "Afternoon", "Evening">>

\* pd.cut(bins, labels, include_lowest=True) on one cell; right=True is the
\* default, so bin k is (Bins[k], Bins[k+1]] and the first also holds Bins[1]
cut(h) ==
    IF h = NoHour THEN NaN
    ELSE IF h = Bins[1] THEN Labels[1]
    ELSE IF \E k \in 1..Len(Labels) : Bins[k] < h /\ h <= Bins[k + 1]
         THEN Labels[CHOOSE k \in 1..Len(Labels) :
                         Bins[k] < h /\ h <= Bins[k + 1]]
         ELSE NaN

\* lines 28-36 on the copy the run got from load_data
Derive(tbl) ==
    [i \in 1..Len(tbl) |->
        [idx |-> tbl[i].idx, date |-> to_datetime(tbl[i].date),
         hour |-> tbl[i].hour, bucket |-> cut(tbl[i].hour),
         vehicle |-> tbl[i].vehicle, gender |-> tbl[i].gender,
         race |-> tbl[i].race, violation |-> tbl[i].violation,
         make |-> tbl[i].make, desc |-> tbl[i].desc]]

(***************************************************************************)
(* The sidebar, lines 44-79.                                               *)
(***************************************************************************)
ValidDates(tbl) == {tbl[i].date : i \in 1..Len(tbl)} \ {NaT}

\* df["Date Of Stop"].min() and .max(): NaT is skipped
DateMin(tbl) == CHOOSE d \in ValidDates(tbl) : \A e \in ValidDates(tbl) : d <= e
DateMax(tbl) == CHOOSE d \in ValidDates(tbl) : \A e \in ValidDates(tbl) : e <= d

\* the same without .dropna(): the missing value is offered as an option
OptionsKeepNaN(tbl, col) == {tbl[i][col] : i \in 1..Len(tbl)}

\* sorted(df[col].dropna().unique()): the options of a multiselect
Options(tbl, col) == {tbl[i][col] : i \in 1..Len(tbl)} \ {NaN}

\* what the five inputs return on the first run: their default values
DefaultSel(tbl) ==
    [date_range |-> <<DateMin(tbl), DateMax(tbl)>>,
     vehicle |-> Options(tbl, "vehicle"),
     gender |-> Options(tbl, "gender"),
     race |-> Options(tbl, "race"),
     violation |-> Options(tbl, "violation")]

(***************************************************************************)
(* The filter, lines 84-93.                                                *)
(***************************************************************************)
\* Series.between(lo, hi): inclusive="both"; NaT compares False
between(x, lo, hi) == x # NaT /\ lo <= x /\ x <= hi

\* Series.isin(values)
isin(x, values) == x \in values

\* the mask with | written for one of the &
RowMaskOr(r, sel) ==
    /\ between(r.date, sel.date_range[1], sel.date_range[2])
    /\ \/ isin(r.vehicle, sel.vehicle)
       \/ isin(r.gender, sel.gender)
    /\ isin(r.race, sel.race)
    /\ isin(r.violation, sel.violation)

\* one element of the boolean mask of lines 85-92
RowMask(r, sel) ==
    /\ between(r.date, sel.date_range[1], sel.date_range[2])
    /\ isin(r.vehicle, sel.vehicle)
    /\ isin(r.gender, sel.gender)
    /\ isin(r.race, sel.race)
    /\ isin(r.violation, sel.violation)

RECURSIVE TakeWhere(_, _, _, _)
\* the rows of tbl at the positions lo..hi whose mask element is True, in order
TakeWhere(tbl, mask, lo, hi) ==
    IF lo > hi THEN <<>>
    ELSE IF lo = hi THEN (IF mask[lo] THEN <<tbl[lo]>> ELSE <<>>)
    ELSE LET mid == (lo + hi) \div 2
         IN  TakeWhere(tbl, mask, lo, mid) \o TakeWhere(tbl, mask, mid + 1, hi)

\* the selection with its first row lost
BooleanIndexSkipFirst(tbl, mask) ==
    LET rows == TakeWhere(tbl, mask, 1, Len(tbl))
    IN  IF rows = <<>> THEN rows ELSE Tail(rows)

\* df[mask]: the rows whose mask element is True, in order, index kept
BooleanIndex(tbl, mask) == TakeWhere(tbl, mask, 1, Len(tbl))

\* filtered_df = df[ ... ]
ApplyFilter(tbl, sel) ==
    BooleanIndex(tbl, [i \in 1..Len(tbl) |-> RowMask(tbl[i], sel)])

(***************************************************************************)
(* The views, lines 105-211.                                               *)
(***************************************************************************)
Smallest(S) == CHOOSE x \in S : \A y \in S : x <= y

\* the distinct non-missing values of tbl[col], in order of first appearance
Uniq(tbl, col) ==
    LET values == {tbl[i][col] : i \in 1..Len(tbl)} \ {NaN}
        first == {Smallest({i \in 1..Len(tbl) : tbl[i][col] = v}) : v \in values}
    IN  TakeWhere([i \in 1..Len(tbl) |-> tbl[i][col]],
                  [i \in 1..Len(tbl) |-> i \in first], 1, Len(tbl))

CountOf(tbl, col, v) == Cardinality({i \in 1..Len(tbl) : tbl[i][col] = v})

RECURSIVE SortFrom(_, _)
\* the entries whose count is in counts, highest count first, entries of equal
\* count in the order they have in entries
SortFrom(entries, counts) ==
    IF counts = {} THEN <<>>
    ELSE LET c == CHOOSE x \in counts : \A y \in counts : y <= x
         IN  SelectSeq(entries, LAMBDA e : e.Count = c)
                 \o SortFrom(entries, counts \ {c})

\* Series.sort_values(ascending=False) on the counts
SortDesc(entries) ==
    SortFrom(entries, {entries[k].Count : k \in 1..Len(entries)})

\* the counts left in order of appearance
value_counts_unsorted(tbl, col) ==
    LET u == Uniq(tbl, col)
    IN  [k \in 1..Len(u) |-> [Value |-> u[k], Count |-> CountOf(tbl, col, u[k])]]

\* Series.value_counts() of a text column: one entry per distinct non-missing
\* value, highest count first, values of equal count in order of appearance
value_counts(tbl, col) ==
    LET u == Uniq(tbl, col)
        entries ==
            [k \in 1..Len(u) |->
                [Value |-> u[k], Count |-> CountOf(tbl, col, u[k])]]
    IN  SortDesc(entries)

\* Series.value_counts() of the categorical Time Bucket: every category has an
\* entry, also with count 0
value_counts_categorical(tbl) ==
    LET entries ==
            [k \in 1..Len(Labels) |->
                [Value |-> Labels[k], Count |-> CountOf(tbl, "bucket", Labels[k])]]
    IN  SortDesc(entries)

\* .head(n)
head(s, n) == SubSeq(s, 1, Min(n, Len(s)))

Header ==
    <<"Date Of Stop", "Stop Hour", "VehicleType_Category", "Gender", "Race",
      "Violation Type", "Make", "Description", "Time Bucket">>

CsvText(v) == IF v = NaN THEN "" ELSE v

\* one data line of the CSV: the index is not written, a missing value is
\* written as the empty text
CsvLine(r) ==
    <<IF r.date = NaT THEN "" ELSE DateStrings[r.date],
      IF r.hour = NoHour THEN "" ELSE ToString(r.hour),
      CsvText(r.vehicle), CsvText(r.gender), CsvText(r.race),
      CsvText(r.violation), CsvText(r.make), CsvText(r.desc),
      CsvText(r.bucket)>>

CsvLines(tbl) == <<Header>> \o [i \in 1..Len(tbl) |-> CsvLine(tbl[i])]

\* the export built from what the preview shows
to_csv_preview(tbl) == CsvLines(SubSeq(tbl, 1, Min(PreviewRows, Len(tbl))))

\* filtered_df.to_csv(index=False)
to_csv(tbl) == CsvLines(tbl)

(***************************************************************************)
(* One run of the script.                                                  *)
(***************************************************************************)
\* the run from line 98 on: the four tabs, given filtered_df
Tabs(f, heat) ==
    [filtered_df |-> f,
     top_makes |-> head(value_counts(f, "make"), TopN),
     time_df |-> value_counts_categorical(f),
     top_violations |-> head(value_counts(f, "desc"), TopN),
     heatmap |-> IF heat THEN f ELSE <<>>,
     preview |-> head(f, PreviewRows),
     csv |-> to_csv(f)]

\* what is on the page when the run stopped with an exception before the tabs
NoTabs ==
    [filtered_df |-> <<>>, top_makes |-> <<>>, time_df |-> <<>>,
     top_violations |-> <<>>, heatmap |-> <<>>, preview |-> <<>>,
     csv |-> <<>>]

\* lines 44-211 on the derived table d: date_range[1] raises IndexError when
\* the input holds one date, and the run stops at line 87
Page(d, sel, heat) ==
    IF Len(sel.date_range) < 2
    THEN [df |-> d, sel |-> sel, err |-> "IndexError", tabs |-> NoTabs]
    ELSE CHOOSE page \in
             {[df |-> d, sel |-> sel, err |-> "none", tabs |-> Tabs(f, heat)] :
                 f \in {ApplyFilter(d, sel)}} : TRUE

\* everything a run leaves behind, given the cache, the file and the values
\* the widgets return in this run
Run(c, file, n, sel, heat) ==
    CHOOSE run \in
        {[cache |-> ld.cache, loads |-> ld.loads,
          page |-> CHOOSE page \in
                       {Page(d, sel, heat) : d \in {Derive(ld.cache.table)}} :
                       TRUE] :
            ld \in {load_data(c, file, n)}} : TRUE

Sel ==
    [date_range |-> date_range, vehicle |-> selected_vehicle,
     gender |-> selected_gender, race |-> selected_race,
     violation |-> selected_violation]

\* the run triggered by an interaction that left the widgets at sel and heat
Rerun(sel, heat) ==
    \E out \in {Run(cache, parquet, loads, sel, heat)} :
        /\ cache' = out.cache
        /\ loads' = out.loads
        /\ df' = out.page.df
        /\ date_range' = sel.date_range
        /\ selected_vehicle' = sel.vehicle
        /\ selected_gender' = sel.gender
        /\ selected_race' = sel.race
        /\ selected_violation' = sel.violation
        /\ show_heatmap' = heat
        /\ filtered_df' = out.page.tabs.filtered_df
        /\ top_makes' = out.page.tabs.top_makes
        /\ time_df' = out.page.tabs.time_df
        /\ top_violations' = out.page.tabs.top_violations
        /\ heatmap' = out.page.tabs.heatmap
        /\ preview' = out.page.tabs.preview
        /\ csv' = out.page.tabs.csv
        /\ err' = out.page.err
        /\ UNCHANGED parquet

\* the files the model starts from: every one has a date that parses, so the
\* date input has a default range
Tables ==
    {t \in SmallTables \cup MediumTables \cup BigTables :
        \E i \in 1..Len(t) : IsDateString(t[i].date)}

NoCache == [filled |-> FALSE, table |-> <<>>]

\* the session right after its first run: empty cache, every widget at its
\* default
Init ==
    \E file \in Tables :
        \E out \in {Run(NoCache, file, 0,
                         DefaultSel(Derive(read_parquet(file))), FALSE)} :
            /\ parquet = file
            /\ cache = out.cache
            /\ loads = out.loads
            /\ df = out.page.df
            /\ date_range = out.page.sel.date_range
            /\ selected_vehicle = out.page.sel.vehicle
            /\ selected_gender = out.page.sel.gender
            /\ selected_race = out.page.sel.race
            /\ selected_violation = out.page.sel.violation
            /\ show_heatmap = FALSE
            /\ filtered_df = out.page.tabs.filtered_df
            /\ top_makes = out.page.tabs.top_makes
            /\ time_df = out.page.tabs.time_df
            /\ top_violations = out.page.tabs.top_violations
            /\ heatmap = out.page.tabs.heatmap
            /\ preview = out.page.tabs.preview
            /\ csv = out.page.tabs.csv
            /\ err = out.page.err

(***************************************************************************)
(* The interactions.                                                       *)
(***************************************************************************)
Toggle(S, v) == IF v \in S THEN S \ {v} ELSE S \cup {v}

\* first click in the calendar: the input now holds the start date alone
PickStartDate ==
    \E s \in Days : Rerun([Sel EXCEPT !.date_range = <<s>>], show_heatmap)

\* second click: the range is complete
PickEndDate ==
    /\ Len(date_range) = 1
    /\ \E e \in Days :
        /\ date_range[1] <= e
        /\ Rerun([Sel EXCEPT !.date_range = <<date_range[1], e>>], show_heatmap)

ChangeVehicle ==
    \E v \in Options(df, "vehicle") :
        Rerun([Sel EXCEPT !.vehicle = Toggle(selected_vehicle, v)], show_heatmap)

ChangeGender ==
    \E v \in Options(df, "gender") :
        Rerun([Sel EXCEPT !.gender = Toggle(selected_gender, v)], show_heatmap)

ChangeRace ==
    \E v \in Options(df, "race") :
        Rerun([Sel EXCEPT !.race = Toggle(selected_race, v)], show_heatmap)

ChangeViolation ==
    \E v \in Options(df, "violation") :
        Rerun([Sel EXCEPT !.violation = Toggle(selected_violation, v)],
              show_heatmap)

ToggleHeatmap == Rerun(Sel, ~show_heatmap)

Next ==
    \/ PickStartDate
    \/ PickEndDate
    \/ ChangeVehicle
    \/ ChangeGender
    \/ ChangeRace
    \/ ChangeViolation
    \/ ToggleHeatmap

Spec == Init /\ [][Next]_vars

(***************************************************************************)
(* Properties.                                                             *)
(***************************************************************************)
Rendered == err = "none"

\* the index labels of the rows of f
Kept(f) == {f[k].idx : k \in 1..Len(f)}

\* f holds rows of t, unchanged, in the order they have in t
IsSubTable(f, t) ==
    /\ \A k \in 1..Len(f) :
        /\ f[k].idx + 1 \in 1..Len(t)
        /\ f[k] = t[f[k].idx + 1]
    /\ \A k \in 1..(Len(f) - 1) : f[k].idx < f[k + 1].idx

SomeSelectionEmpty ==
    \/ selected_vehicle = {}
    \/ selected_gender = {}
    \/ selected_race = {}
    \/ selected_violation = {}

\* every option of every multiselect is selected and the date range is the
\* default one, from the first to the last date of the table
AllSelected == Rendered /\ Sel = DefaultSel(df)

\* the bucket of hour h when every bin holds its lower bound
LeftInclusiveBucket(h) ==
    IF h < 6 THEN "Night"
    ELSE IF h < 12 THEN "Morning"
    ELSE IF h < 18 THEN "Afternoon"
    ELSE "Evening"

\* C1: every row with a stop hour in 0..23 has the bucket of the left-inclusive
\* bins: Night for 0..5, Morning for 6..11, Afternoon for 12..17, Evening for
\* 18..23
C1_TimeBucketLeftInclusive ==
    \A i \in 1..Len(df) :
        df[i].hour \in 0..23 => df[i].bucket = LeftInclusiveBucket(df[i].hour)

\* C2: with every option selected and the full default date range the filtered
\* table is the loaded table, rows with a missing date or category included
C2_AllSelectedReproducesTable == AllSelected => filtered_df = df

\* a row with a date and with a value in each of the four filtered columns
Complete(r) ==
    /\ r.date # NaT
    /\ r.vehicle # NaN
    /\ r.gender # NaN
    /\ r.race # NaN
    /\ r.violation # NaN

\* C2, amended: with every option selected and the full default date range the
\* filtered table holds exactly the rows that have a date and a value in each
\* of the four filtered columns, in the loaded order; it is the loaded table
\* when no row misses one of these
C2_AllSelectedKeepsCompleteRows ==
    AllSelected =>
        /\ IsSubTable(filtered_df, df)
        /\ Kept(filtered_df) = {df[i].idx : i \in {j \in 1..Len(df) : Complete(df[j])}}
        /\ (\A i \in 1..Len(df) : Complete(df[i])) => filtered_df = df

\* everything is selected, a row with a missing value is dropped and another
\* row is kept
C2_Witness ==
    /\ AllSelected
    /\ filtered_df # <<>>
    /\ \E i \in 1..Len(df) : df[i].date # NaT /\ ~Complete(df[i])

\* C3: when one of the four multiselects has nothing selected, the run ends
\* without an exception and the filtered table has no rows
C3_EmptySelectionGivesEmptyTable ==
    SomeSelectionEmpty => (Rendered /\ filtered_df = <<>>)

\* C4: the export is the header and one line per row of the filtered table, in
\* the same order, however many rows there are; the preview is the first 200
C4_ExportHoldsEveryFilteredRow ==
    Rendered =>
        /\ Len(csv) = Len(filtered_df) + 1
        /\ csv[1] = Header
        /\ \A k \in 1..Len(filtered_df) : csv[k + 1] = CsvLine(filtered_df[k])
        /\ Len(preview) = Min(PreviewRows, Len(filtered_df))
        /\ \A k \in 1..Len(preview) : preview[k] = filtered_df[k]

\* the filtered table is longer than the preview, and the export has it all
C4_Witness ==
    /\ Rendered
    /\ Len(filtered_df) > PreviewRows
    /\ Len(preview) = PreviewRows
    /\ Len(csv) = Len(filtered_df) + 1

\* C5: filtering the filtered table again with the same selection changes
\* nothing
C5_FilterIdempotent == Rendered => ApplyFilter(filtered_df, Sel) = filtered_df

\* the filter kept some rows and dropped some rows whose date is in the table
C5_Witness ==
    /\ Rendered
    /\ filtered_df # <<>>
    /\ Len(filtered_df) < Len(df)
    /\ ApplyFilter(filtered_df, Sel) # df

\* top is the top 10 of column col of f
IsTopOf(top, f, col) ==
    LET distinct == {f[i][col] : i \in 1..Len(f)} \ {NaN}
        shown == {top[k].Value : k \in 1..Len(top)}
        rows(v) == Cardinality({i \in 1..Len(f) : f[i][col] = v})
    IN  /\ Len(top) = Min(10, Cardinality(distinct))
        /\ Cardinality(shown) = Len(top)
        /\ shown \subseteq distinct
        /\ \A k \in 1..Len(top) : top[k].Count = rows(top[k].Value)
        /\ \A k \in 1..(Len(top) - 1) : top[k].Count >= top[k + 1].Count
        /\ \A v \in distinct \ shown : \A k \in 1..Len(top) : rows(v) <= top[k].Count

\* C6: each top-10 view has min(10, distinct non-missing values) rows, with the
\* counts of the filtered rows, highest first, and leaves out no value with a
\* higher count than one it shows
C6_TopTenByCount ==
    Rendered =>
        /\ IsTopOf(top_makes, filtered_df, "make")
        /\ IsTopOf(top_violations, filtered_df, "desc")

\* more than ten makes with different counts: the view is cut at ten
C6_Witness ==
    /\ Rendered
    /\ Cardinality({filtered_df[i].make : i \in 1..Len(filtered_df)} \ {NaN}) > TopN
    /\ Len(top_makes) = TopN
    /\ top_makes[1].Count > top_makes[TopN].Count

C8_FilterIsConjunction ==
    Rendered =>
        /\ IsSubTable(filtered_df, df)
        /\ Len(filtered_df) <= Len(df)
        /\ \A i \in 1..Len(df) :
            df[i].idx \in Kept(filtered_df) <=>
                /\ df[i].date # NaT
                /\ date_range[1] <= df[i].date
                /\ df[i].date <= date_range[2]
                /\ df[i].vehicle \in selected_vehicle
                /\ df[i].gender \in selected_gender
                /\ df[i].race \in selected_race
                /\ df[i].violation \in selected_violation

\* rows on both end points of a range of several days are kept while a row
\* with a date in the range is left out by one of the multiselects
C8_Witness ==
    /\ Rendered
    /\ date_range[1] < date_range[2]
    /\ \E k \in 1..Len(filtered_df) : filtered_df[k].date = date_range[1]
    /\ \E k \in 1..Len(filtered_df) : filtered_df[k].date = date_range[2]
    /\ \E i \in 1..Len(df) :
        /\ df[i].idx \notin Kept(filtered_df)
        /\ between(df[i].date, date_range[1], date_range[2])

\* C9: whatever the interactions so far, the cache holds the table as it was
\* read, it was read once, and what the last run shows is the derivation and
\* the filter of that table under the current selection alone
C9_CacheUnchangedLoadedOnce ==
    /\ cache = [filled |-> TRUE, table |-> read_parquet(parquet)]
    /\ loads = 1
    /\ df = Derive(read_parquet(parquet))
    /\ Rendered => filtered_df = ApplyFilter(Derive(read_parquet(parquet)), Sel)
    /\ Rendered => heatmap = IF show_heatmap THEN filtered_df ELSE <<>>

\* a state that takes a date pick, a multiselect change and a heatmap toggle to
\* reach
C9_Witness ==
    /\ Rendered
    /\ show_heatmap
    /\ date_range # DefaultSel(df).date_range
    /\ selected_vehicle # DefaultSel(df).vehicle
    /\ filtered_df # <<>>
    /\ loads = 1

\* C10: in every state of the filter inputs, the input holding one date
\* included, the run reaches the tabs without an exception
C10_RunNeverRaises == Rendered

====
